---- MODULE Spec2Model ----
(***************************************************************************)
(* Model of the trading bot's cycle: RiskManager (admission, sizing,       *)
(* trailing stop), FeeCalculator, and OptimizedTradingBot (run_cycle,      *)
(* check_open_positions, close_position, execute_signal).                  *)
(*                                                                         *)
(* Fixed-point conventions (the code uses floats):                         *)
(*   money            integer cents                                        *)
(*   prices, stops    integer price ticks of 0.01                          *)
(*   amounts          integer units of 1/AMT_SCALE                         *)
(*   percentages      basis points (1/10000)                               *)
(*   confidences      hundredths                                           *)
(*   time             seconds; day index = now \div DAY                    *)
(***************************************************************************)
EXTENDS Integers, Sequences, FiniteSets, TLC

\* ---------------------------------------------------------------- bounds
MaxTrades == 2
MaxCycles == 3
MaxRegistered == 3
MaxTicks == 2

\* --------------------------------------------- DataCollector (program values)
MAX_RETRIES == 3
RETRY_DELAY == 1

\* ------------------------------------------------------- scale constants
BP == 10000
AMT_SCALE == 10000
DAY == 86400
HOUR == 3600

\* ------------------------------------------------ settings (program values)
MAX_POSITION_PERCENT == 1000
MIN_TRADE_VALUE == 1000
RISK_PER_TRADE == 150
DEFAULT_STOP_LOSS == 200
DEFAULT_TAKE_PROFIT == 500
COOLDOWN_MINUTES == 1
MAX_DAILY_LOSS == 500
MAX_TOTAL_EXPOSURE == 9500
TRAILING_STOP_ACTIVATION == 200
TRAILING_STOP_DISTANCE == 100
DYNAMIC_TP_LOW_VOL == 300
DYNAMIC_TP_NORMAL == 450
DYNAMIC_TP_HIGH_VOL == 600
MIN_SIGNAL_CONFIDENCE == 20
CONFIDENCE_MULTIPLIER_LOW == 30
CONFIDENCE_MULTIPLIER_MEDIUM == 70
CONFIDENCE_MULTIPLIER_HIGH == 100
CONFIDENCE_MULTIPLIER_VERY_HIGH == 120
SLIPPAGE_PERCENT == 5
TAKER_FEE == 10
MARGIN_OPENING_FEE == 2
MARGIN_ROLLOVER_FEE == 2
ROLLOVER_INTERVAL_HOURS == 4
max_drawdown_percent == 1500
MIN_ACTIONABLE_CONFIDENCE == 10
SWAP_THRESHOLD == 25
INITIAL_BALANCE == 100000
ANALYSIS_COOLDOWN == 10

\* RiskConfig count limits.  The shipped values (9999 trades a day, 30 open
\* positions, 5 per symbol) are configuration; the model runs the same code
\* under a small configuration so that each limit is reached.
max_daily_trades == 2
max_open_positions == 3
max_trades_per_symbol == 2

\* ------------------------------------------------------------ input sets
Symbols == {"A", "B", "C"}
SymIndex(s) == CASE s = "A" -> 1 [] s = "B" -> 2 [] s = "C" -> 3
SymAt(i) == CHOOSE s \in Symbols : SymIndex(s) = i
Prices == {4000, 10000, 10400}
PricesOf(s) == IF s = "A" THEN Prices ELSE {10000}
AtrSet == {0}
TickSet == {15, 14400}
START_TIME == 72000

Sig(a, c, st) == [action |-> a, confidence |-> c, signal_strength |-> st]
Signals ==
    { Sig("HOLD", 10, "NORMAL"), Sig("BUY", 80, "NORMAL"),
      Sig("SELL", 80, "NORMAL"), Sig("BUY", 80, "STRONG") }
SignalsOf(s) ==
    IF s = "A" THEN Signals
    ELSE IF s = "B" THEN { Sig("HOLD", 55, "NORMAL"), Sig("BUY", 80, "NORMAL") }
    ELSE { Sig("HOLD", 10, "NORMAL"), Sig("BUY", 80, "NORMAL") }

\* The market observations (price, signal) a fetch can return: every signal at
\* the reference price, and away from it the signals that the exit paths need.
Observable(s, price, signal) ==
    \/ price = 10000
    \/ price = 10400 /\ signal \in { Sig("HOLD", 10, "NORMAL"), Sig("SELL", 80, "NORMAL") }
    \/ price = 4000 /\ signal \in { Sig("HOLD", 10, "NORMAL"), Sig("BUY", 80, "NORMAL") }

FailingSymbols == {"A"}
KellySet == {0}

NoPrice == 0
NoTime == -1

Min(a, b) == IF a <= b THEN a ELSE b
Max(a, b) == IF a >= b THEN a ELSE b


\* ------------------------------------------------------------ FeeCalculator
calculate_slippage(trade_value) == (trade_value * SLIPPAGE_PERCENT) \div BP

calculate_entry_fees(trade_value, is_margin) ==
    LET trading_fee == (trade_value * TAKER_FEE) \div BP
        margin_fee == IF is_margin THEN (trade_value * MARGIN_OPENING_FEE) \div BP ELSE 0
        total == trading_fee + margin_fee
    IN [trading_fee |-> trading_fee,
        margin_fee |-> margin_fee,
        slippage |-> calculate_slippage(trade_value),
        total |-> total + calculate_slippage(trade_value)]

calculate_exit_fees(trade_value) == (trade_value * TAKER_FEE) \div BP

\* Mutant of RolloverPeriods: the interval that has begun is charged as well.
RolloverPeriodsCeil(seconds_open) ==
    IF seconds_open >= 0
    THEN (seconds_open + ROLLOVER_INTERVAL_HOURS * HOUR - 1) \div (ROLLOVER_INTERVAL_HOURS * HOUR)
    ELSE -((-seconds_open) \div (ROLLOVER_INTERVAL_HOURS * HOUR))

\* `int(hours_open / self.rollover_interval_hours)` (line 113): int() drops the
\* fraction, toward zero on either side of it.
RolloverPeriods(seconds_open) ==
    IF seconds_open >= 0
    THEN seconds_open \div (ROLLOVER_INTERVAL_HOURS * HOUR)
    ELSE -((-seconds_open) \div (ROLLOVER_INTERVAL_HOURS * HOUR))

calculate_rollover_fees(trade_value, entry_time, exit_time) ==
    LET seconds_open == exit_time - entry_time
        rollover_periods == RolloverPeriods(seconds_open)
    IN ((trade_value * MARGIN_ROLLOVER_FEE) \div BP) * rollover_periods

calculate_total_fees(entry_fee, exit_fee, rollover_fee) == entry_fee + exit_fee + rollover_fee

calculate_all_fees_for_trade(entry_price, exit_price, amount, entry_time, exit_time) ==
    LET entry_value == (entry_price * amount) \div AMT_SCALE
        exit_value == (exit_price * amount) \div AMT_SCALE
        entry_fees == calculate_entry_fees(entry_value, TRUE)
        exit_fee == calculate_exit_fees(exit_value)
        rollover_fee == calculate_rollover_fees(entry_value, entry_time, exit_time)
    IN [entry_fee |-> entry_fees.total,
        exit_fee |-> exit_fee,
        rollover_fee |-> rollover_fee,
        total_fees |-> calculate_total_fees(entry_fees.total, exit_fee, rollover_fee)]

\* -------------------------------------------------------------- RiskManager
\* RiskState, with RiskManager._daily_reset_time kept as its day index.
InitRiskState ==
    [daily_pnl |-> 0,
     daily_trades |-> 0,
     last_trade_time |-> [s \in Symbols |-> NoTime],
     open_positions |-> <<>>,
     peak_balance |-> INITIAL_BALANCE,
     current_drawdown |-> 0,
     daily_reset_day |-> START_TIME \div DAY]

\* Mutant of reset_daily_stats: the reset clears daily_pnl and keeps daily_trades.
ResetDailyStatsKeepingTrades(rs, t) ==
    IF t \div DAY > rs.daily_reset_day
    THEN [rs EXCEPT !.daily_pnl = 0, !.daily_reset_day = t \div DAY]
    ELSE rs

reset_daily_stats(rs, t) ==
    IF t \div DAY > rs.daily_reset_day
    THEN [rs EXCEPT !.daily_pnl = 0, !.daily_trades = 0, !.daily_reset_day = t \div DAY]
    ELSE rs

RECURSIVE SumExposure(_, _)
SumExposure(positions, ids) ==
    IF ids = {} THEN 0
    ELSE LET i == CHOOSE x \in ids : TRUE
         IN (positions[i].entry_price * positions[i].amount) \div AMT_SCALE
            + SumExposure(positions, ids \ {i})

total_exposure(rs) == SumExposure(rs.open_positions, DOMAIN rs.open_positions)

\* can_trade counts `s == symbol` over the KEYS of open_positions, which are
\* trade ids (the first 8 hex digits of a uuid4); symbols are "BASE/QUOTE"
\* strings, so a key never equals a symbol.
TradeIdEqualsSymbol(trade_id, symbol) == FALSE

symbol_positions(rs, symbol) ==
    Cardinality({ tid \in DOMAIN rs.open_positions : TradeIdEqualsSymbol(tid, symbol) })

R_DAILY_LOSS == "Daily loss limit reached"
R_DAILY_TRADES == "Max daily trades reached"
R_MAX_OPEN == "Max open positions reached"
R_MAX_SYMBOL == "Max positions for symbol reached"
R_COOLDOWN == "Cooldown active"
R_DRAWDOWN == "Max drawdown reached"
R_EXPOSURE == "Max exposure reached"
R_ALLOWED == "Trade allowed"

\* Mutant of daily_loss_breached: the loss is compared with the wrong sign.
DailyLossBreachedSignFlipped(rs, balance) == rs.daily_pnl * BP > balance * MAX_DAILY_LOSS

daily_loss_breached(rs, balance) == rs.daily_pnl * BP < -(balance * MAX_DAILY_LOSS)

\* Mutant of cooldown_active: the elapsed seconds are compared with the
\* cooldown in minutes.
CooldownActiveMixingUnits(rs, symbol, t) ==
    /\ rs.last_trade_time[symbol] # NoTime
    /\ t - rs.last_trade_time[symbol] < COOLDOWN_MINUTES

cooldown_active(rs, symbol, t) ==
    /\ rs.last_trade_time[symbol] # NoTime
    /\ t - rs.last_trade_time[symbol] < COOLDOWN_MINUTES * 60

\* Mutant of can_trade_reason: the cooldown is tested first, and the daily-loss
\* test after the daily trade count.
CanTradeReasonReordered(rs, symbol, balance, t) ==
    IF cooldown_active(rs, symbol, t) THEN R_COOLDOWN
    ELSE IF rs.daily_trades >= max_daily_trades THEN R_DAILY_TRADES
    ELSE IF daily_loss_breached(rs, balance) THEN R_DAILY_LOSS
    ELSE IF Cardinality(DOMAIN rs.open_positions) >= max_open_positions THEN R_MAX_OPEN
    ELSE IF symbol_positions(rs, symbol) >= max_trades_per_symbol THEN R_MAX_SYMBOL
    ELSE IF rs.current_drawdown > max_drawdown_percent THEN R_DRAWDOWN
    ELSE IF total_exposure(rs) * BP > balance * MAX_TOTAL_EXPOSURE THEN R_EXPOSURE
    ELSE R_ALLOWED

\* The decision of can_trade on a RiskState on which reset_daily_stats has run.
can_trade_reason(rs, symbol, balance, t) ==
    IF daily_loss_breached(rs, balance) THEN R_DAILY_LOSS
    ELSE IF rs.daily_trades >= max_daily_trades THEN R_DAILY_TRADES
    ELSE IF Cardinality(DOMAIN rs.open_positions) >= max_open_positions THEN R_MAX_OPEN
    ELSE IF symbol_positions(rs, symbol) >= max_trades_per_symbol THEN R_MAX_SYMBOL
    ELSE IF cooldown_active(rs, symbol, t) THEN R_COOLDOWN
    ELSE IF rs.current_drawdown > max_drawdown_percent THEN R_DRAWDOWN
    ELSE IF total_exposure(rs) * BP > balance * MAX_TOTAL_EXPOSURE THEN R_EXPOSURE
    ELSE R_ALLOWED

\* Mutant of can_trade: an allowed call is counted as a trade of the day.
CanTradeCountingCalls(rs, symbol, balance, t) ==
    LET rs1 == reset_daily_stats(rs, t)
        reason == can_trade_reason(rs1, symbol, balance, t)
    IN [allowed |-> (reason = R_ALLOWED), reason |-> reason,
        rs |-> IF reason = R_ALLOWED
               THEN [rs1 EXCEPT !.daily_trades = rs1.daily_trades + 1] ELSE rs1]

\* can_trade: (allowed, reason) and the RiskState it leaves behind.
can_trade(rs, symbol, balance, t) ==
    LET rs1 == reset_daily_stats(rs, t)
        reason == can_trade_reason(rs1, symbol, balance, t)
    IN [allowed |-> (reason = R_ALLOWED), reason |-> reason, rs |-> rs1]

\* Mutant of _get_confidence_multiplier: every tier boundary belongs to the
\* tier below it.
GetConfidenceMultiplierInclusive(confidence) ==
    IF confidence <= MIN_SIGNAL_CONFIDENCE THEN 0
    ELSE IF confidence <= 60 THEN CONFIDENCE_MULTIPLIER_LOW
    ELSE IF confidence <= 70 THEN CONFIDENCE_MULTIPLIER_MEDIUM
    ELSE IF confidence <= 85 THEN CONFIDENCE_MULTIPLIER_HIGH
    ELSE CONFIDENCE_MULTIPLIER_VERY_HIGH

_get_confidence_multiplier(confidence) ==
    IF confidence < MIN_SIGNAL_CONFIDENCE THEN 0
    ELSE IF confidence < 60 THEN CONFIDENCE_MULTIPLIER_LOW
    ELSE IF confidence < 70 THEN CONFIDENCE_MULTIPLIER_MEDIUM
    ELSE IF confidence < 85 THEN CONFIDENCE_MULTIPLIER_HIGH
    ELSE CONFIDENCE_MULTIPLIER_VERY_HIGH

\* atr is in price ticks; atr_percent = atr / price * 100.
calculate_dynamic_take_profit(price, atr) ==
    IF atr <= 0 \/ price <= 0
    THEN (price * (BP + DEFAULT_TAKE_PROFIT)) \div BP
    ELSE LET tp_percent == IF atr * 1000 < 15 * price THEN DYNAMIC_TP_LOW_VOL
                           ELSE IF atr * 1000 < 30 * price THEN DYNAMIC_TP_NORMAL
                           ELSE DYNAMIC_TP_HIGH_VOL
         IN (price * (BP + tp_percent)) \div BP

NoSize == [size |-> 0, stop_loss |-> 0, take_profit |-> 0]

\* Mutant of SizeFromBase: the max-position clamp is dropped and the position
\* value is doubled for margin leverage.
SizeFromBaseLeveraged(base_value, balance, price, confidence, volatility_factor, atr) ==
    LET confidence_multiplier == _get_confidence_multiplier(confidence)
        position_value == 2 * ((base_value * confidence_multiplier) \div 100)
    IN IF confidence_multiplier = 0 THEN NoSize
       ELSE IF position_value < MIN_TRADE_VALUE THEN NoSize
       ELSE [size |-> (position_value * AMT_SCALE) \div price,
             stop_loss |-> (price * (BP - DEFAULT_STOP_LOSS)) \div BP,
             take_profit |-> calculate_dynamic_take_profit(price, atr)]

\* Sizing from a base position value onwards (risk_manager.py lines 180-207);
\* volatility_factor is in hundredths, 100 being the default 1.0.
SizeFromBase(base_value, balance, price, confidence, volatility_factor, atr) ==
    LET confidence_multiplier == _get_confidence_multiplier(confidence)
        by_confidence == (base_value * confidence_multiplier) \div 100
        scaled == (by_confidence * 100) \div Max(volatility_factor, 50)
        max_value == (balance * MAX_POSITION_PERCENT) \div BP
        position_value == Min(scaled, max_value)
    IN IF confidence_multiplier = 0 THEN NoSize
       ELSE IF position_value < MIN_TRADE_VALUE THEN NoSize
       ELSE [size |-> (position_value * AMT_SCALE) \div price,
             stop_loss |-> (price * (BP - DEFAULT_STOP_LOSS)) \div BP,
             take_profit |-> calculate_dynamic_take_profit(price, atr)]

\* Mutant of calculate_position_size: the position value is not checked
\* against min_trade_value.
CalculatePositionSizeNoMinimum(balance, price, confidence, volatility_factor, atr) ==
    IF balance < MIN_TRADE_VALUE THEN NoSize
    ELSE LET risk_amount == (balance * RISK_PER_TRADE) \div BP
             base_value == (risk_amount * BP) \div DEFAULT_STOP_LOSS
             confidence_multiplier == _get_confidence_multiplier(confidence)
             by_confidence == (base_value * confidence_multiplier) \div 100
             scaled == (by_confidence * 100) \div Max(volatility_factor, 50)
             max_value == (balance * MAX_POSITION_PERCENT) \div BP
             position_value == Min(scaled, max_value)
         IN IF confidence_multiplier = 0 THEN NoSize
            ELSE [size |-> (position_value * AMT_SCALE) \div price,
                  stop_loss |-> (price * (BP - DEFAULT_STOP_LOSS)) \div BP,
                  take_profit |-> calculate_dynamic_take_profit(price, atr)]

calculate_position_size(balance, price, confidence, volatility_factor, atr) ==
    IF balance < MIN_TRADE_VALUE THEN NoSize
    ELSE LET risk_amount == (balance * RISK_PER_TRADE) \div BP
             position_value == (risk_amount * BP) \div DEFAULT_STOP_LOSS
         IN SizeFromBase(position_value, balance, price, confidence, volatility_factor, atr)

\* Mutant of calculate_trailing_stop: a price exactly at the trail level does
\* not trigger.
CalculateTrailingStopStrict(entry_price, current_price, peak_price, side) ==
    LET inactive == [should_close |-> FALSE, trailing_stop |-> 0, state |-> "not yet active"]
    IN IF side = "buy"
       THEN IF (peak_price - entry_price) * BP >= TRAILING_STOP_ACTIVATION * entry_price
            THEN LET hit == current_price * BP < peak_price * (BP - TRAILING_STOP_DISTANCE)
                 IN [should_close |-> hit,
                     trailing_stop |-> (peak_price * (BP - TRAILING_STOP_DISTANCE)) \div BP,
                     state |-> IF hit THEN "hit" ELSE "active"]
            ELSE inactive
       ELSE IF (entry_price - peak_price) * BP >= TRAILING_STOP_ACTIVATION * entry_price
            THEN LET hit == current_price * BP > peak_price * (BP + TRAILING_STOP_DISTANCE)
                 IN [should_close |-> hit,
                     trailing_stop |-> (peak_price * (BP + TRAILING_STOP_DISTANCE)) \div BP,
                     state |-> IF hit THEN "hit" ELSE "active"]
            ELSE inactive

calculate_trailing_stop(entry_price, current_price, peak_price, side) ==
    LET inactive == [should_close |-> FALSE, trailing_stop |-> 0, state |-> "not yet active"]
    IN IF side = "buy"
       THEN IF (peak_price - entry_price) * BP >= TRAILING_STOP_ACTIVATION * entry_price
            THEN LET hit == current_price * BP <= peak_price * (BP - TRAILING_STOP_DISTANCE)
                 IN [should_close |-> hit,
                     trailing_stop |-> (peak_price * (BP - TRAILING_STOP_DISTANCE)) \div BP,
                     state |-> IF hit THEN "hit" ELSE "active"]
            ELSE inactive
       ELSE IF (entry_price - peak_price) * BP >= TRAILING_STOP_ACTIVATION * entry_price
            THEN LET hit == current_price * BP >= peak_price * (BP + TRAILING_STOP_DISTANCE)
                 IN [should_close |-> hit,
                     trailing_stop |-> (peak_price * (BP + TRAILING_STOP_DISTANCE)) \div BP,
                     state |-> IF hit THEN "hit" ELSE "active"]
            ELSE inactive

\* Function (dict) helpers.
Put(f, k, v) == [x \in (DOMAIN f) \cup {k} |-> IF x = k THEN v ELSE f[x]]
Del(f, k) == [x \in (DOMAIN f) \ {k} |-> f[x]]

register_trade(rs, trade_id, symbol, side, entry_price, amount, stop_loss, take_profit, t) ==
    [rs EXCEPT
        !.open_positions = Put(rs.open_positions, trade_id,
            [symbol |-> symbol, side |-> side, entry_price |-> entry_price,
             amount |-> amount, entry_time |-> t,
             stop_loss |-> stop_loss, take_profit |-> take_profit]),
        !.last_trade_time = [rs.last_trade_time EXCEPT ![symbol] = t],
        !.daily_trades = rs.daily_trades + 1]

close_trade(rs, trade_id, pnl) ==
    [rs EXCEPT
        !.open_positions = IF trade_id \in DOMAIN rs.open_positions
                           THEN Del(rs.open_positions, trade_id)
                           ELSE rs.open_positions,
        !.daily_pnl = rs.daily_pnl + pnl]

update_balance(rs, balance) ==
    LET peak == IF balance > rs.peak_balance THEN balance ELSE rs.peak_balance
    IN [rs EXCEPT
          !.peak_balance = peak,
          !.current_drawdown = IF peak > 0 THEN ((peak - balance) * BP) \div peak ELSE 0]

get_risk_summary_can_trade(rs) == rs.daily_trades < max_daily_trades


\* ------------------------------------------------------ OptimizedTradingBot
VARIABLES
    now,                \* wall clock (datetime.now()), seconds
    matched_build,      \* FALSE: RiskManager as under src; TRUE: the Kelly-aware
                        \* RiskManager that execute_signal calls
    total_balance, free_balance, used_balance,
    open_positions,     \* trade id -> position dict
    position_peaks,     \* trade id -> peak price
    rs,                 \* risk_manager.state (+ _daily_reset_time)
    price_cache, atr_cache,
    next_id,            \* stands for uuid4: ids are fresh, dict order = id order
    pc,                 \* position of run_cycle / run
    results,            \* per-symbol result of this cycle's fetch_and_analyze task
    opportunities, weakest_holdings,
    log,                \* history of this cycle: opens, closes and auction decisions
    cycles,
    use_postgres,       \* DataStorage.use_postgres
    pg_trades,          \* rows of the trades table in PostgreSQL, by trade id
    duck_trades,        \* rows of the trades table in DuckDB, by trade id
    fetch_call,         \* DataCollector.fetch_ohlcv, the call in progress per symbol
    last_analysis       \* bot.last_analysis: time of the last signal generated per symbol

vars == <<now, matched_build, total_balance, free_balance, used_balance,
          open_positions, position_peaks, rs, price_cache, atr_cache, next_id,
          pc, results, opportunities, weakest_holdings, log, cycles,
          use_postgres, pg_trades, duck_trades, fetch_call, last_analysis>>

\* What the steps of run_cycle other than the fetch tasks never touch.
serviceVars == <<use_postgres, pg_trades, duck_trades, fetch_call, last_analysis>>

\* DataStorage and DataCollector as constructed: no trade row written, no
\* fetch in progress.  The bot's own specifications leave them there.
StoreIds == 1..MaxTrades
NoRows == [id \in StoreIds |-> "none"]
NoCall == [status |-> "idle", attempt |-> 0, outcomes |-> <<>>, waits |-> <<>>,
           frame |-> "none"]
InitServices ==
    /\ use_postgres = FALSE
    /\ pg_trades = NoRows
    /\ duck_trades = NoRows
    /\ fetch_call = [s \in Symbols |-> NoCall]
    /\ last_analysis = [s \in Symbols |-> NoTime]

\* The mutable fields of the bot that close_position and execute_signal touch.
Bot == [total_balance |-> total_balance, free_balance |-> free_balance,
        used_balance |-> used_balance, open_positions |-> open_positions,
        position_peaks |-> position_peaks, rs |-> rs, next_id |-> next_id,
        log |-> log, exc |-> "none"]

SetBot(b) ==
    /\ total_balance' = b.total_balance
    /\ free_balance' = b.free_balance
    /\ used_balance' = b.used_balance
    /\ open_positions' = b.open_positions
    /\ position_peaks' = b.position_peaks
    /\ rs' = b.rs
    /\ next_id' = b.next_id
    /\ log' = b.log

\* MLSignal.is_actionable
is_actionable(signal) ==
    signal.action # "HOLD" /\ signal.confidence >= MIN_ACTIONABLE_CONFIDENCE

Lower(action) == IF action = "BUY" THEN "buy" ELSE IF action = "SELL" THEN "sell" ELSE "hold"

\* Mutant of BalanceTotal: the total is advanced from the free balance alone.
BalanceTotalFreeOnly(free, used) == free

\* `self.total_balance = self.free_balance + self.used_balance`, the last
\* line of both balance updates (lines 364 and 465).
BalanceTotal(free, used) == free + used

\* Mutant of EntryNotional: the amount is cut to whole units first.
EntryNotionalWholeUnits(amount, entry_price) == (amount \div AMT_SCALE) * entry_price

\* `amount * entry_price`, the notional close_position gives back (lines
\* 362-363).
EntryNotional(amount, entry_price) == (amount * entry_price) \div AMT_SCALE

close_position(b, trade_id, exit_price, reason, pnl, t) ==
    IF trade_id \notin DOMAIN b.open_positions THEN b
    ELSE
    LET position == b.open_positions[trade_id]
        amount == position.amount
        entry_price == position.entry_price
        fees == calculate_all_fees_for_trade(entry_price, exit_price, amount,
                                             position.entry_time, t)
        gross_pnl == pnl
        net_pnl == gross_pnl - fees.total_fees
        notional == EntryNotional(amount, entry_price)
        free == b.free_balance + notional + net_pnl
        used == b.used_balance - notional
        total == BalanceTotal(free, used)
    IN [b EXCEPT
          !.free_balance = free,
          !.used_balance = used,
          !.total_balance = total,
          !.rs = update_balance(close_trade(b.rs, trade_id, net_pnl), total),
          !.open_positions = Del(b.open_positions, trade_id),
          !.position_peaks = IF trade_id \in DOMAIN b.position_peaks
                             THEN Del(b.position_peaks, trade_id)
                             ELSE b.position_peaks,
          !.log = Append(b.log, [kind |-> "close", id |-> trade_id, reason |-> reason,
                                 symbol |-> position.symbol, side |-> position.side,
                                 entry_price |-> entry_price, exit_price |-> exit_price,
                                 net_pnl |-> net_pnl, fees |-> fees.total_fees,
                                 gross_pnl |-> gross_pnl, entry_fee |-> fees.entry_fee,
                                 exit_fee |-> fees.exit_fee,
                                 rollover_fee |-> fees.rollover_fee])]

\* Mutant of Ratchet: the long rule max(old, entry) is applied to both sides.
RatchetIgnoringSide(pos, tid, trade_id, symbol, side) ==
    IF pos.symbol = symbol /\ tid # trade_id /\ pos.side = side
    THEN LET new_sl == Max(pos.stop_loss, pos.entry_price)
         IN IF new_sl > pos.stop_loss THEN [pos EXCEPT !.stop_loss = new_sl] ELSE pos
    ELSE pos

\* The pyramiding ratchet of execute_signal applied to one existing position.
Ratchet(pos, tid, trade_id, symbol, side) ==
    IF pos.symbol = symbol /\ tid # trade_id /\ pos.side = side
    THEN IF side = "buy"
         THEN LET new_sl == Max(pos.stop_loss, pos.entry_price)
              IN IF new_sl > pos.stop_loss THEN [pos EXCEPT !.stop_loss = new_sl] ELSE pos
         ELSE IF side = "sell"
         THEN LET old_sl == IF pos.stop_loss = 0 THEN (pos.entry_price * 15) \div 10
                            ELSE pos.stop_loss
                  new_sl == Min(old_sl, pos.entry_price)
              IN IF new_sl < old_sl THEN [pos EXCEPT !.stop_loss = new_sl] ELSE pos
         ELSE pos
    ELSE pos

\* RiskManager.calculate_position_size as execute_signal calls it, with
\* kelly_fraction: a positive Kelly fraction replaces the flat
\* risk-per-trade base; the remaining steps are those of the sizing above.
calculate_position_size_kelly(balance, price, confidence, atr, kelly_fraction) ==
    IF kelly_fraction > 0
    THEN IF balance < MIN_TRADE_VALUE THEN NoSize
         ELSE SizeFromBase((balance * kelly_fraction) \div BP, balance, price, confidence, 100, atr)
    ELSE calculate_position_size(balance, price, confidence, 100, atr)

execute_signal(b, symbol, signal, current_price, atr, kelly_fraction, t, accepts_kelly) ==
    IF ~is_actionable(signal) THEN b
    ELSE
    LET ct == can_trade(b.rs, symbol, b.total_balance, t)
        b1 == [b EXCEPT !.rs = ct.rs]
    IN IF ~ct.allowed THEN b1
       ELSE IF ~accepts_kelly THEN [b1 EXCEPT !.exc = "TypeError"]
       ELSE
       LET sized == calculate_position_size_kelly(b1.free_balance, current_price,
                                                  signal.confidence, atr, kelly_fraction)
       IN IF sized.size <= 0 THEN b1
          ELSE IF signal.signal_strength = "STRONG" THEN [b1 EXCEPT !.exc = "AttributeError"]
          ELSE
          LET position_size == sized.size
              trade_value == (position_size * current_price) \div AMT_SCALE
              entry_fees == calculate_entry_fees(trade_value, TRUE)
              trade_id == b1.next_id
              side == Lower(signal.action)
              free == b1.free_balance - (trade_value + entry_fees.total)
              used == b1.used_balance + trade_value
              opened == Put(b1.open_positions, trade_id,
                            [symbol |-> symbol, side |-> side,
                             entry_price |-> current_price, amount |-> position_size,
                             entry_time |-> t, stop_loss |-> sized.stop_loss,
                             take_profit |-> sized.take_profit,
                             entry_fee |-> entry_fees.total])
              ratcheted == [tid \in DOMAIN opened |->
                               Ratchet(opened[tid], tid, trade_id, symbol, side)]
              rs1 == register_trade(b1.rs, trade_id, symbol, side, current_price,
                                    position_size, sized.stop_loss, sized.take_profit, t)
              rs2 == [rs1 EXCEPT !.open_positions =
                        [tid \in DOMAIN rs1.open_positions |->
                            IF tid \in DOMAIN ratcheted
                            THEN [rs1.open_positions[tid] EXCEPT
                                     !.stop_loss = ratcheted[tid].stop_loss]
                            ELSE rs1.open_positions[tid]]]
          IN [b1 EXCEPT
                !.free_balance = free,
                !.used_balance = used,
                !.total_balance = BalanceTotal(free, used),
                !.rs = rs2,
                !.open_positions = ratcheted,
                !.position_peaks = Put(b1.position_peaks, trade_id, current_price),
                !.next_id = trade_id + 1,
                !.log = Append(b1.log, [kind |-> "open", id |-> trade_id, symbol |-> symbol,
                                        side |-> side, notional |-> trade_value,
                                        free_before |-> b1.free_balance,
                                        daily_pnl |-> b1.rs.daily_pnl,
                                        total_before |-> b1.total_balance])]


\* ids of a dict in iteration (insertion) order
RECURSIVE SortedIds(_)
SortedIds(ids) ==
    IF ids = {} THEN <<>>
    ELSE LET m == CHOOSE x \in ids : \A y \in ids : x <= y
         IN <<m>> \o SortedIds(ids \ {m})

\* Mutant of PeakAfter: the peak follows the current price.
PeakFollowingPrice(peaks, trade_id, side, current_price) == current_price

\* check_open_positions, peak update of one position (lines 273-279)
PeakAfter(peaks, trade_id, side, current_price) ==
    IF trade_id \notin DOMAIN peaks THEN current_price
    ELSE IF side = "buy" /\ current_price > peaks[trade_id] THEN current_price
    ELSE IF side = "sell" /\ current_price < peaks[trade_id] THEN current_price
    ELSE peaks[trade_id]

\* numerator of pnl_pct = PnlNum / entry_price (lines 284-287)
PnlNum(side, entry_price, current_price) ==
    IF side = "buy" THEN current_price - entry_price ELSE entry_price - current_price

\* Mutant of StopLossHit: the stop-loss fires from break-even down.
StopLossHitAtBreakEven(side, entry_price, current_price) ==
    PnlNum(side, entry_price, current_price) <= 0

StopLossHit(side, entry_price, current_price) ==
    PnlNum(side, entry_price, current_price) * BP <= -(DEFAULT_STOP_LOSS * entry_price)

TakeProfitHit(side, entry_price, current_price, atr) ==
    PnlNum(side, entry_price, current_price)
        >= calculate_dynamic_take_profit(entry_price, atr) - entry_price

\* Mutant of ExitEntries: the stop-loss test runs before the trailing stop.
ExitEntriesStopLossFirst(trade_id, position, current_price, peak_price, atr) ==
    LET entry_price == position.entry_price
        side == position.side
        notional == (entry_price * position.amount) \div AMT_SCALE
        pnl == (PnlNum(side, entry_price, current_price) * notional) \div entry_price
        trail == calculate_trailing_stop(entry_price, current_price, peak_price, side)
        E(reason) == [trade_id |-> trade_id, exit_price |-> current_price,
                      reason |-> reason, pnl |-> pnl]
    IN IF StopLossHit(side, entry_price, current_price) THEN << E("STOP_LOSS") >>
       ELSE IF trail.should_close THEN << E("TRAILING_STOP") >>
       ELSE IF TakeProfitHit(side, entry_price, current_price, atr)
       THEN << E("TAKE_PROFIT") >> ELSE <<>>

\* check_open_positions, the entries one position adds to positions_to_close
\* (lines 283-312): trailing stop first and `continue`, then stop-loss, then
\* take-profit.
ExitEntries(trade_id, position, current_price, peak_price, atr) ==
    LET entry_price == position.entry_price
        side == position.side
        notional == (entry_price * position.amount) \div AMT_SCALE
        pnl == (PnlNum(side, entry_price, current_price) * notional) \div entry_price
        trail == calculate_trailing_stop(entry_price, current_price, peak_price, side)
        E(reason) == [trade_id |-> trade_id, exit_price |-> current_price,
                      reason |-> reason, pnl |-> pnl]
    IN IF trail.should_close THEN << E("TRAILING_STOP") >>
       ELSE (IF StopLossHit(side, entry_price, current_price)
             THEN << E("STOP_LOSS") >> ELSE <<>>)
            \o
            (IF TakeProfitHit(side, entry_price, current_price, atr)
             THEN << E("TAKE_PROFIT") >> ELSE <<>>)

RECURSIVE CloseAll(_, _, _)
CloseAll(b, to_close, t) ==
    IF to_close = <<>> THEN b
    ELSE LET e == Head(to_close)
         IN CloseAll(close_position(b, e.trade_id, e.exit_price, e.reason, e.pnl, t),
                     Tail(to_close), t)

RECURSIVE ExitList(_, _, _, _, _)
ExitList(ids, positions, peaks, prices, atrs) ==
    IF ids = <<>> THEN <<>>
    ELSE LET tid == Head(ids)
             p == positions[tid]
         IN (IF prices[p.symbol] = NoPrice THEN <<>>
             ELSE ExitEntries(tid, p, prices[p.symbol], peaks[tid], atrs[p.symbol]))
            \o ExitList(Tail(ids), positions, peaks, prices, atrs)

check_open_positions(b, prices, atrs, t) ==
    IF DOMAIN b.open_positions = {} THEN b
    ELSE
    LET peaks == [tid \in (DOMAIN b.position_peaks) \cup
                          {x \in DOMAIN b.open_positions :
                               prices[b.open_positions[x].symbol] # NoPrice} |->
                     IF tid \in DOMAIN b.open_positions
                        /\ prices[b.open_positions[tid].symbol] # NoPrice
                     THEN PeakAfter(b.position_peaks, tid, b.open_positions[tid].side,
                                    prices[b.open_positions[tid].symbol])
                     ELSE b.position_peaks[tid]]
        positions_to_close == ExitList(SortedIds(DOMAIN b.open_positions),
                                       b.open_positions, peaks, prices, atrs)
    IN CloseAll([b EXCEPT !.position_peaks = peaks], positions_to_close, t)


\* ------------------------------------------------------------- run_cycle
NoResult == [status |-> "none"]
PendingResult == [status |-> "pending"]
FailedResult == [status |-> "failed"]
PriceOnlyResult(price) == [status |-> "price_only", price |-> price]
OkResult(price, signal) == [status |-> "ok", price |-> price, signal |-> signal]

\* analysis_map: the symbols whose task returned a price and a signal
AnalysisSymbols(res) == { s \in Symbols : res[s].status = "ok" }

\* symbols in the iteration order of analysis_map
RECURSIVE SymSeq(_)
SymSeq(ss) ==
    IF ss = {} THEN <<>>
    ELSE LET m == CHOOSE x \in ss : \A y \in ss : SymIndex(x) <= SymIndex(y)
         IN <<m>> \o SymSeq(ss \ {m})

\* list.sort(key=score): stable insertion by ascending / descending score
RECURSIVE InsertAsc(_, _)
InsertAsc(sorted, e) ==
    IF sorted = <<>> THEN <<e>>
    ELSE IF e.score < Head(sorted).score THEN <<e>> \o sorted
    ELSE <<Head(sorted)>> \o InsertAsc(Tail(sorted), e)

RECURSIVE InsertDesc(_, _)
InsertDesc(sorted, e) ==
    IF sorted = <<>> THEN <<e>>
    ELSE IF e.score > Head(sorted).score THEN <<e>> \o sorted
    ELSE <<Head(sorted)>> \o InsertDesc(Tail(sorted), e)

RECURSIVE SortAsc(_)
SortAsc(q) == IF q = <<>> THEN <<>> ELSE InsertAsc(SortAsc(SubSeq(q, 1, Len(q) - 1)), q[Len(q)])

RECURSIVE SortDesc(_)
SortDesc(q) == IF q = <<>> THEN <<>> ELSE InsertDesc(SortDesc(SubSeq(q, 1, Len(q) - 1)), q[Len(q)])

\* run_cycle step 4 (lines 612-633): natural exits on a flipped signal
RECURSIVE NaturalExits(_, _, _, _)
NaturalExits(b, ids, res, t) ==
    IF ids = <<>> THEN b
    ELSE
    LET trade_id == Head(ids)
        pos == b.open_positions[trade_id]
        symbol == pos.symbol
        b1 == IF symbol \in AnalysisSymbols(res)
              THEN LET price == res[symbol].price
                       signal == res[symbol].signal
                   IN IF signal.action = "SELL" /\ pos.side = "buy"
                      THEN close_position(b, trade_id, price, "SIGNAL_EXIT_LONG",
                               ((price - pos.entry_price) * pos.amount) \div AMT_SCALE, t)
                      ELSE IF signal.action = "BUY" /\ pos.side = "sell"
                      THEN close_position(b, trade_id, price, "SIGNAL_EXIT_SHORT",
                               ((pos.entry_price - price) * pos.amount) \div AMT_SCALE, t)
                      ELSE b
              ELSE b
    IN NaturalExits(b1, Tail(ids), res, t)

\* Mutant of ExitPhases: the natural exits run before check_open_positions.
ExitPhasesNaturalFirst(b, prices, atrs, res, t) ==
    LET b1 == NaturalExits(b, SortedIds(DOMAIN b.open_positions), res, t)
    IN check_open_positions(b1, prices, atrs, t)

\* run_cycle steps 3b and 4 in their order (lines 607-633): the hard exits of
\* check_open_positions, then the natural exits over the positions left.
ExitPhases(b, prices, atrs, res, t) ==
    LET b1 == check_open_positions(b, prices, atrs, t)
    IN NaturalExits(b1, SortedIds(DOMAIN b1.open_positions), res, t)

\* run_cycle step 5, candidate lists (lines 639-683)
RECURSIVE OpportunityList(_, _)
OpportunityList(syms, res) ==
    IF syms = <<>> THEN <<>>
    ELSE LET symbol == Head(syms)
             signal == res[symbol].signal
         IN (IF is_actionable(signal) /\ signal.action \in {"BUY", "SELL"}
             THEN << [symbol |-> symbol, price |-> res[symbol].price, signal |-> signal,
                      score |-> signal.confidence, direction |-> Lower(signal.action)] >>
             ELSE <<>>)
            \o OpportunityList(Tail(syms), res)

FirstTradeOf(positions, symbol) ==
    LET ids == { tid \in DOMAIN positions : positions[tid].symbol = symbol }
    IN CHOOSE x \in ids : \A y \in ids : x <= y

RECURSIVE HoldingList(_, _, _)
HoldingList(syms, res, positions) ==
    IF syms = <<>> THEN <<>>
    ELSE LET symbol == Head(syms)
         IN (IF \E tid \in DOMAIN positions : positions[tid].symbol = symbol
             THEN << [trade_id |-> FirstTradeOf(positions, symbol), symbol |-> symbol,
                      price |-> res[symbol].price,
                      score |-> res[symbol].signal.confidence] >>
             ELSE <<>>)
            \o HoldingList(Tail(syms), res, positions)

\* `"Daily" in risk_reason or "Cooldown" in risk_reason` (line 723): a
\* case-sensitive substring test on the reason returned by can_trade.
ContainsDaily(reason) == reason = R_DAILY_LOSS
ContainsCooldown(reason) == reason = R_COOLDOWN
IsHardBlock(reason) == ContainsDaily(reason) \/ ContainsCooldown(reason)

\* Mutant of SwapJustified: a difference equal to the threshold is enough.
SwapJustifiedInclusive(opp_score, victim_score) ==
    opp_score - victim_score >= SWAP_THRESHOLD

\* `score_diff = opp['score'] - victim['score']; if score_diff > SWAP_THRESHOLD`
\* (lines 741-743)
SwapJustified(opp_score, victim_score) ==
    opp_score - victim_score > SWAP_THRESHOLD

\* One iteration of the auction loop (lines 690-780) for the opportunity opp.
\* Yields the bot state, the holdings list left for the next iteration, and
\* the branch taken.
AuctionIteration(b, opp, holdings, atrs, kelly_fraction, t, accepts_kelly) ==
    LET symbol == opp.symbol
        signal == opp.signal
        price == opp.price
        ct == can_trade(b.rs, symbol, b.total_balance, t)
        b1 == [b EXCEPT !.rs = ct.rs]
        atr == atrs[symbol]
        pos == calculate_position_size(b1.free_balance, price, signal.confidence, 100, atr)
        cost == (pos.size * price) \div AMT_SCALE
        Ev(bb, branch, victim) ==
            [bb EXCEPT !.log = Append(bb.log,
                [kind |-> "auction", symbol |-> symbol, allowed |-> ct.allowed,
                 reason |-> ct.reason, cost |-> cost, score |-> opp.score,
                 branch |-> branch, victim |-> victim,
                 victim_score |-> IF victim = 0 THEN 0 ELSE Head(holdings).score])]
    IN IF ct.allowed /\ cost > 0
       THEN [b |-> execute_signal(Ev(b1, "open", 0), symbol, signal, price, atr,
                                  kelly_fraction, t, accepts_kelly),
             holdings |-> holdings]
       ELSE IF IsHardBlock(ct.reason)
       THEN [b |-> Ev(b1, "skip", 0), holdings |-> holdings]
       ELSE IF holdings = <<>>
       THEN [b |-> Ev(b1, "noholdings", 0), holdings |-> holdings]
       ELSE
       LET victim == Head(holdings)
       IN IF SwapJustified(opp.score, victim.score)
          THEN LET victim_pos == b1.open_positions[victim.trade_id]
                   raw == ((victim.price - victim_pos.entry_price) * victim_pos.amount)
                              \div AMT_SCALE
                   pnl == IF victim_pos.side = "sell" THEN -raw ELSE raw
                   b2 == close_position(Ev(b1, "swap", victim.trade_id), victim.trade_id,
                                        victim.price, "ARBITRAGE_SWAP", pnl, t)
                   new == calculate_position_size(b2.free_balance, price,
                                                  signal.confidence, 100, atr)
               IN [b |-> IF (new.size * price) \div AMT_SCALE >= MIN_TRADE_VALUE
                         THEN execute_signal(b2, symbol, signal, price, atr,
                                             kelly_fraction, t, accepts_kelly)
                         ELSE b2,
                   holdings |-> Tail(holdings)]
          ELSE [b |-> Ev(b1, "noswap", victim.trade_id), holdings |-> holdings]


\* ------------------------------------------------------------------ actions
Init ==
    /\ now = START_TIME
    /\ matched_build \in BOOLEAN
    /\ total_balance = INITIAL_BALANCE
    /\ free_balance = INITIAL_BALANCE
    /\ used_balance = 0
    /\ open_positions = <<>>
    /\ position_peaks = <<>>
    /\ rs = InitRiskState
    /\ price_cache = [s \in Symbols |-> NoPrice]
    /\ atr_cache = [s \in Symbols |-> 0]
    /\ next_id = 1
    /\ pc = "idle"
    /\ results = [s \in Symbols |-> NoResult]
    /\ opportunities = <<>>
    /\ weakest_holdings = <<>>
    /\ log = <<>>
    /\ cycles = 0
    /\ InitServices

\* run(): `await asyncio.sleep(cycle_interval)` between two cycles; the time
\* until the next cycle starts is the interval or longer.
Sleep ==
    /\ pc = "sleep"
    /\ \E d \in TickSet : now' = now + d
    /\ pc' = "idle"
    /\ UNCHANGED <<matched_build, total_balance, free_balance, used_balance,
                   open_positions, position_peaks, rs, price_cache, atr_cache, next_id,
                   results, opportunities, weakest_holdings, log, cycles>>
    /\ UNCHANGED serviceVars

\* run_cycle step 1 (lines 562-568) with the gate open: the fetch tasks start.
RunCycleStart ==
    /\ pc = "idle"
    /\ cycles < MaxCycles
    /\ get_risk_summary_can_trade(reset_daily_stats(rs, now))
    /\ rs' = reset_daily_stats(rs, now)
    /\ pc' = "fetch"
    /\ results' = [s \in Symbols |-> PendingResult]
    /\ log' = <<>>
    /\ UNCHANGED <<now, matched_build, total_balance, free_balance, used_balance,
                   open_positions, position_peaks, price_cache, atr_cache, next_id,
                   opportunities, weakest_holdings, cycles>>
    /\ UNCHANGED serviceVars

\* run_cycle step 1 with the gate closed: the cycle logs "Trading paused" and
\* returns at once.
RunCycleHalted ==
    /\ pc = "idle"
    /\ cycles < MaxCycles
    /\ ~get_risk_summary_can_trade(reset_daily_stats(rs, now))
    /\ rs' = reset_daily_stats(rs, now)
    /\ log' = << [kind |-> "paused"] >>
    /\ cycles' = cycles + 1
    /\ pc' = "sleep"
    /\ UNCHANGED <<now, matched_build, total_balance, free_balance, used_balance,
                   open_positions, position_peaks, price_cache, atr_cache, next_id,
                   results, opportunities, weakest_holdings>>
    /\ UNCHANGED serviceVars

\* fetch_and_analyze(symbol): one task of the gather, from the return of its
\* only await (collector.fetch_ohlcv) to its own return.  No candles or an
\* exception give (None, None) and leave the caches alone; candles set the
\* price and ATR caches, and then either the analysis cooldown returns the
\* price without a signal, or a signal is generated and last_analysis stamped.
FetchAndAnalyze(symbol) ==
    /\ pc = "fetch"
    /\ results[symbol].status = "pending"
    /\ \/ /\ symbol \in FailingSymbols
          /\ results' = [results EXCEPT ![symbol] = FailedResult]
          /\ UNCHANGED <<price_cache, atr_cache, last_analysis>>
       \/ \E price \in PricesOf(symbol), atr \in AtrSet, signal \in SignalsOf(symbol) :
             /\ Observable(symbol, price, signal)
             /\ price_cache' = [price_cache EXCEPT ![symbol] = price]
             /\ atr_cache' = [atr_cache EXCEPT ![symbol] = atr]
             /\ IF last_analysis[symbol] # NoTime
                      /\ now - last_analysis[symbol] < ANALYSIS_COOLDOWN
                THEN /\ results' = [results EXCEPT ![symbol] = PriceOnlyResult(price)]
                     /\ UNCHANGED last_analysis
                ELSE /\ results' = [results EXCEPT ![symbol] = OkResult(price, signal)]
                     /\ last_analysis' = [last_analysis EXCEPT ![symbol] = now]
    /\ UNCHANGED <<now, matched_build, total_balance, free_balance, used_balance,
                   open_positions, position_peaks, rs, next_id, pc,
                   opportunities, weakest_holdings, log, cycles>>
    /\ UNCHANGED <<use_postgres, pg_trades, duck_trades, fetch_call>>

\* Mutant of GatherReturned: the gather returns with the first task.
GatherFirstCompleted(res) == \E s \in Symbols : res[s].status # "pending"

\* `results = await asyncio.gather(...)` (lines 578-581) returns when every
\* task has returned.
GatherReturned(res) == \A s \in Symbols : res[s].status # "pending"

\* run_cycle steps 3b-5 up to the sorted candidate lists (lines 583-683):
\* after the gather has joined, hard exits, then natural exits, then the lists.
ManagePositions ==
    /\ pc = "fetch"
    /\ GatherReturned(results)
    /\ LET b2 == ExitPhases(Bot, price_cache, atr_cache, results, now)
           syms == SymSeq(AnalysisSymbols(results))
       IN /\ SetBot(b2)
          /\ opportunities' = SortDesc(OpportunityList(syms, results))
          /\ weakest_holdings' = SortAsc(HoldingList(syms, results, b2.open_positions))
    /\ pc' = "auction"
    /\ UNCHANGED <<now, matched_build, price_cache, atr_cache, results, cycles>>
    /\ UNCHANGED serviceVars

\* run_cycle step 5, one iteration of `for opp in opportunities`.  An
\* exception raised by execute_signal is not caught by run_cycle or by run.
AuctionStep ==
    /\ pc = "auction"
    /\ opportunities # <<>>
    /\ \E kelly_fraction \in KellySet :
          LET r == AuctionIteration(Bot, Head(opportunities), weakest_holdings,
                                    atr_cache, kelly_fraction, now, matched_build)
          IN /\ r.b.next_id <= MaxTrades + 1
             /\ SetBot(r.b)
             /\ weakest_holdings' = r.holdings
             /\ IF r.b.exc = "none"
                THEN /\ pc' = "auction"
                     /\ opportunities' = Tail(opportunities)
                ELSE /\ pc' = "crashed"
                     /\ opportunities' = opportunities
    /\ UNCHANGED <<now, matched_build, price_cache, atr_cache, results, cycles>>
    /\ UNCHANGED serviceVars

\* run_cycle steps after the auction (lines 782-803): summary and heartbeat.
FinishCycle ==
    /\ pc = "auction"
    /\ opportunities = <<>>
    /\ pc' = "sleep"
    /\ cycles' = cycles + 1
    /\ results' = [s \in Symbols |-> NoResult]
    /\ weakest_holdings' = <<>>
    /\ log' = <<>>
    /\ UNCHANGED <<now, matched_build, total_balance, free_balance, used_balance,
                   open_positions, position_peaks, rs, price_cache, atr_cache, next_id,
                   opportunities>>
    /\ UNCHANGED serviceVars

Next ==
    \/ Sleep
    \/ RunCycleStart
    \/ RunCycleHalted
    \/ \E symbol \in Symbols : FetchAndAnalyze(symbol)
    \/ ManagePositions
    \/ AuctionStep
    \/ FinishCycle

Spec == Init /\ [][Next]_vars

TypeOK ==
    /\ pc \in {"idle", "sleep", "fetch", "auction", "crashed", "risk", "storage", "collector", "calc", "ledger"}
    /\ total_balance \in Int /\ free_balance \in Int /\ used_balance \in Int
    /\ DOMAIN open_positions \subseteq (-3..-1) \cup (1..MaxTrades)


\* ------------------------------------------------------ bot after a restart
\* The bot as __init__ and initialize() leave it when the storage holds open
\* trades: the balance is the latest stored balance, each stored trade is put
\* back into open_positions (without stop or target) and registered with the
\* RiskManager at the clock's time.  Stored trades are longs of one unit; they
\* keep the ids they had, which precede every new id.
Stored(symbol, entry_price) == [symbol |-> symbol, entry_price |-> entry_price]
RestoredConfigs ==
    { << Stored("A", 10000), Stored("B", 10000), Stored("C", 10000) >>,
      << Stored("B", 10000), Stored("B", 10000), Stored("C", 10000) >>,
      << Stored("B", 10000), Stored("C", 10000) >>,
      << Stored("A", 10000), Stored("A", 3900) >>,
      << Stored("A", 9950) >> }
RestoredId(config, i) == i - Len(config) - 1
RestoredAmount == AMT_SCALE

RECURSIVE RegisterRestored(_, _, _, _)
RegisterRestored(st, config, i, t) ==
    IF i > Len(config) THEN st
    ELSE RegisterRestored(
            register_trade(st, RestoredId(config, i), config[i].symbol, "buy",
                           config[i].entry_price, RestoredAmount,
                           (config[i].entry_price * 975) \div 1000,
                           (config[i].entry_price * 1045) \div 1000, t),
            config, i + 1, t)

RECURSIVE RestoredNotional(_, _)
RestoredNotional(config, i) ==
    IF i > Len(config) THEN 0
    ELSE (config[i].entry_price * RestoredAmount) \div AMT_SCALE
            + RestoredNotional(config, i + 1)

InitRestart ==
    /\ now = START_TIME
    /\ matched_build \in BOOLEAN
    /\ \E config \in RestoredConfigs :
          LET used == RestoredNotional(config, 1)
          IN /\ total_balance = INITIAL_BALANCE
             /\ free_balance = INITIAL_BALANCE - used
             /\ used_balance = used
             /\ open_positions =
                   [id \in { RestoredId(config, i) : i \in 1..Len(config) } |->
                       [symbol |-> config[id + Len(config) + 1].symbol, side |-> "buy",
                        entry_price |-> config[id + Len(config) + 1].entry_price,
                        amount |-> RestoredAmount,
                        entry_time |-> START_TIME, stop_loss |-> 0, take_profit |-> 0,
                        entry_fee |-> 0]]
             /\ rs = RegisterRestored(InitRiskState, config, 1, START_TIME)
    /\ position_peaks = <<>>
    /\ price_cache = [s \in Symbols |-> NoPrice]
    /\ atr_cache = [s \in Symbols |-> 0]
    /\ next_id = 1
    /\ pc = "idle"
    /\ results = [s \in Symbols |-> NoResult]
    /\ opportunities = <<>>
    /\ weakest_holdings = <<>>
    /\ log = <<>>
    /\ cycles = 0
    /\ InitServices

SpecRestart == InitRestart /\ [][Next]_vars


\* ------------------------------------------------- RiskManager on its own
\* The RiskManager driven through its public methods by an arbitrary caller:
\* register_trade, close_trade, update_balance and can_trade in any order,
\* with the clock advancing in between.  total_balance is the balance the
\* caller passes to can_trade; the bot's own fields stay as constructed.
RiskAmounts == {10000, 50000}
RiskPnls == {-6000}
RiskSymbols == {"A", "B"}
RiskTicks == {7200}
RiskBalances == {80000, 100000}

RiskIdle == <<matched_build, free_balance, used_balance, open_positions,
              position_peaks, price_cache, atr_cache, pc, results,
              opportunities, weakest_holdings, last_analysis>>

InitRisk ==
    /\ now = START_TIME
    /\ matched_build = FALSE
    /\ total_balance = INITIAL_BALANCE
    /\ free_balance = INITIAL_BALANCE
    /\ used_balance = 0
    /\ open_positions = <<>>
    /\ position_peaks = <<>>
    /\ rs = InitRiskState
    /\ price_cache = [s \in Symbols |-> NoPrice]
    /\ atr_cache = [s \in Symbols |-> 0]
    /\ next_id = 1
    /\ pc = "risk"
    /\ results = [s \in Symbols |-> NoResult]
    /\ opportunities = <<>>
    /\ weakest_holdings = <<>>
    /\ log = <<>>
    /\ cycles = 0
    /\ InitServices

RegisterTrade ==
    /\ pc = "risk"
    /\ next_id <= MaxRegistered
    /\ \E symbol \in RiskSymbols, amount \in RiskAmounts :
          rs' = register_trade(rs, next_id, symbol, "buy", 10000, amount, 9800, 10500, now)
    /\ next_id' = next_id + 1
    /\ log' = <<>>
    /\ UNCHANGED <<now, total_balance, cycles>>
    /\ UNCHANGED RiskIdle
    /\ UNCHANGED serviceVars

CloseTrade ==
    /\ pc = "risk"
    /\ \E trade_id \in DOMAIN rs.open_positions, pnl \in RiskPnls :
          rs' = close_trade(rs, trade_id, pnl)
    /\ log' = <<>>
    /\ UNCHANGED <<now, total_balance, next_id, cycles>>
    /\ UNCHANGED RiskIdle
    /\ UNCHANGED serviceVars

UpdateBalance ==
    /\ pc = "risk"
    /\ \E balance \in RiskBalances :
          /\ rs' = update_balance(rs, balance)
          /\ total_balance' = balance
    /\ log' = <<>>
    /\ UNCHANGED <<now, next_id, cycles>>
    /\ UNCHANGED RiskIdle
    /\ UNCHANGED serviceVars

ClockTick ==
    /\ pc = "risk"
    /\ cycles < MaxTicks
    /\ \E d \in RiskTicks : now' = now + d
    /\ cycles' = cycles + 1
    /\ log' = <<>>
    /\ UNCHANGED <<total_balance, rs, next_id>>
    /\ UNCHANGED RiskIdle
    /\ UNCHANGED serviceVars

CanTradeCall ==
    /\ pc = "risk"
    /\ \E symbol \in RiskSymbols :
          LET r == can_trade(rs, symbol, total_balance, now)
          IN /\ rs' = r.rs
             /\ log' = << [kind |-> "can_trade", symbol |-> symbol,
                           allowed |-> r.allowed, reason |-> r.reason] >>
    /\ UNCHANGED <<now, total_balance, next_id, cycles>>
    /\ UNCHANGED RiskIdle
    /\ UNCHANGED serviceVars

NextRisk ==
    \/ RegisterTrade
    \/ CloseTrade
    \/ UpdateBalance
    \/ ClockTick
    \/ CanTradeCall

SpecRisk == InitRisk /\ [][NextRisk]_vars


\* ------------------------------------------------- DataStorage on its own
\* DataStorage.save_trade called by an arbitrary caller, each call meeting
\* backends that are up or down.  A row is the status of the trade it stores.
Rows == {"open", "closed"}

\* The parameter style a backend's driver accepts: psycopg2 takes "%s",
\* DuckDB takes "?".
DuckAccepts(placeholder) == placeholder = "?"

\* save_trade (lines 456-501) with _get_connection (228-278) inlined.  The
\* query text is built for the backend selected when the call starts; the
\* connection may come from the other one.
save_trade(up, pg, duck, id, row, pg_connect_ok, pg_query_ok, duck_ok) ==
    LET placeholder == IF up THEN "%s" ELSE "?"
        connected_pg == up /\ pg_connect_ok
        up1 == IF up /\ ~pg_connect_ok THEN FALSE ELSE up
        first == IF connected_pg
                 THEN (IF pg_query_ok THEN "postgres" ELSE "error")
                 ELSE IF ~duck_ok THEN "error"
                 ELSE IF DuckAccepts(placeholder) THEN "duckdb" ELSE "error"
        retry == first = "error" /\ up1
        stored == IF first # "error" THEN first
                  ELSE IF retry /\ duck_ok THEN "duckdb"
                  ELSE "dropped"
    IN [use_postgres |-> IF retry THEN FALSE ELSE up1,
        pg_trades |-> IF stored = "postgres" THEN [pg EXCEPT ![id] = row] ELSE pg,
        duck_trades |-> IF stored = "duckdb" THEN [duck EXCEPT ![id] = row] ELSE duck,
        stored |-> stored,
        raised |-> FALSE]

StorageIdle == <<now, matched_build, total_balance, free_balance, used_balance,
                 open_positions, position_peaks, rs, price_cache, atr_cache, next_id,
                 pc, results, opportunities, weakest_holdings, cycles, fetch_call,
                 last_analysis>>

\* DataStorage.__init__ (lines 24-60): PostgreSQL is used when DATABASE_URL is
\* set and the test connection succeeds.
InitStorage ==
    /\ now = START_TIME
    /\ matched_build = FALSE
    /\ total_balance = INITIAL_BALANCE
    /\ free_balance = INITIAL_BALANCE
    /\ used_balance = 0
    /\ open_positions = <<>>
    /\ position_peaks = <<>>
    /\ rs = InitRiskState
    /\ price_cache = [s \in Symbols |-> NoPrice]
    /\ atr_cache = [s \in Symbols |-> 0]
    /\ next_id = 1
    /\ pc = "storage"
    /\ results = [s \in Symbols |-> NoResult]
    /\ opportunities = <<>>
    /\ weakest_holdings = <<>>
    /\ log = <<>>
    /\ cycles = 0
    /\ use_postgres \in BOOLEAN
    /\ pg_trades = NoRows
    /\ duck_trades = NoRows
    /\ fetch_call = [s \in Symbols |-> NoCall]
    /\ last_analysis = [s \in Symbols |-> NoTime]

SaveTrade ==
    /\ pc = "storage"
    /\ \E id \in StoreIds, row \in Rows, pg_connect_ok \in BOOLEAN,
          pg_query_ok \in BOOLEAN, duck_ok \in BOOLEAN :
          LET r == save_trade(use_postgres, pg_trades, duck_trades, id, row,
                              pg_connect_ok, pg_query_ok, duck_ok)
          IN /\ use_postgres' = r.use_postgres
             /\ pg_trades' = r.pg_trades
             /\ duck_trades' = r.duck_trades
             /\ log' = << [kind |-> "save_trade", id |-> id, row |-> row,
                           was_postgres |-> use_postgres,
                           pg_connect_ok |-> pg_connect_ok, pg_query_ok |-> pg_query_ok,
                           duck_ok |-> duck_ok, stored |-> r.stored,
                           raised |-> r.raised] >>
    /\ UNCHANGED StorageIdle

NextStorage == SaveTrade

SpecStorage == InitStorage /\ [][NextStorage]_vars


\* ------------------------------------------------ DataCollector on its own
\* DataCollector.fetch_ohlcv (lines 21-37), one call per symbol, the calls
\* running concurrently as in the gather of run_cycle.  A call is at its
\* attempt number `attempt`; outcomes lists what the exchange answered to each
\* attempt made, waits the sleeps taken between attempts, in seconds.
ExchangeOutcomes == {"candles", "no_candles", "error"}

\* Mutant of BackoffWait: every wait is the base delay.
BackoffWaitConstant(attempt) == RETRY_DELAY

\* `wait = self.RETRY_DELAY * (2 ** attempt)` (line 31)
BackoffWait(attempt) == RETRY_DELAY * (2 ^ attempt)

CollectorIdle == <<now, matched_build, total_balance, free_balance, used_balance,
                   open_positions, position_peaks, rs, price_cache, atr_cache, next_id,
                   pc, results, opportunities, weakest_holdings, log, cycles,
                   use_postgres, pg_trades, duck_trades, last_analysis>>

InitCollector ==
    /\ now = START_TIME
    /\ matched_build = FALSE
    /\ total_balance = INITIAL_BALANCE
    /\ free_balance = INITIAL_BALANCE
    /\ used_balance = 0
    /\ open_positions = <<>>
    /\ position_peaks = <<>>
    /\ rs = InitRiskState
    /\ price_cache = [s \in Symbols |-> NoPrice]
    /\ atr_cache = [s \in Symbols |-> 0]
    /\ next_id = 1
    /\ pc = "collector"
    /\ results = [s \in Symbols |-> NoResult]
    /\ opportunities = <<>>
    /\ weakest_holdings = <<>>
    /\ log = <<>>
    /\ cycles = 0
    /\ use_postgres = FALSE
    /\ pg_trades = NoRows
    /\ duck_trades = NoRows
    /\ fetch_call = [s \in Symbols |-> NoCall]
    /\ last_analysis = [s \in Symbols |-> NoTime]

\* fetch_and_analyze awaits self.collector.fetch_ohlcv(symbol, "1h", limit=50)
FetchOhlcvCall(symbol) ==
    /\ pc = "collector"
    /\ fetch_call[symbol].status = "idle"
    /\ fetch_call' = [fetch_call EXCEPT ![symbol].status = "trying"]
    /\ UNCHANGED CollectorIdle

\* One pass of the loop body: the exchange call and, on an exception, the
\* choice between a wait and the final empty frame (lines 24-36).
FetchOhlcvAttempt(symbol) ==
    /\ pc = "collector"
    /\ fetch_call[symbol].status = "trying"
    /\ \E outcome \in ExchangeOutcomes :
          LET c == fetch_call[symbol]
              c1 == [c EXCEPT !.outcomes = Append(c.outcomes, outcome)]
          IN fetch_call' = [fetch_call EXCEPT ![symbol] =
                IF outcome = "candles"
                THEN [c1 EXCEPT !.status = "returned", !.frame = "data"]
                ELSE IF outcome = "no_candles"
                THEN [c1 EXCEPT !.status = "returned", !.frame = "empty"]
                ELSE IF c.attempt < MAX_RETRIES - 1
                THEN [c1 EXCEPT !.status = "waiting",
                                !.waits = Append(c.waits, BackoffWait(c.attempt))]
                ELSE [c1 EXCEPT !.status = "returned", !.frame = "empty"]]
    /\ UNCHANGED CollectorIdle

\* `await asyncio.sleep(wait)` is over: the loop goes to its next attempt, or
\* falls out of `range(MAX_RETRIES)` to the final return (line 37).
FetchOhlcvResume(symbol) ==
    /\ pc = "collector"
    /\ fetch_call[symbol].status = "waiting"
    /\ LET c == fetch_call[symbol]
       IN fetch_call' = [fetch_call EXCEPT ![symbol] =
             IF c.attempt + 1 < MAX_RETRIES
             THEN [c EXCEPT !.status = "trying", !.attempt = c.attempt + 1]
             ELSE [c EXCEPT !.status = "returned", !.frame = "empty"]]
    /\ UNCHANGED CollectorIdle

\* fetch_and_analyze on the returned frame: `if df.empty: return None, None`
\* (live_trade.py lines 202-205), otherwise the symbol is analysed.
UseFrame(symbol) ==
    /\ pc = "collector"
    /\ fetch_call[symbol].status = "returned"
    /\ fetch_call' = [fetch_call EXCEPT ![symbol].status =
          IF fetch_call[symbol].frame = "empty" THEN "skipped" ELSE "analysed"]
    /\ UNCHANGED CollectorIdle

NextCollector ==
    \E symbol \in Symbols :
        \/ FetchOhlcvCall(symbol)
        \/ FetchOhlcvAttempt(symbol)
        \/ FetchOhlcvResume(symbol)
        \/ UseFrame(symbol)

\* The event loop runs every coroutine that is ready: an exchange call
\* answers or raises, a sleep ends, and the awaiting caller resumes.
SpecCollector ==
    /\ InitCollector
    /\ [][NextCollector]_vars
    /\ \A symbol \in Symbols :
          /\ WF_vars(FetchOhlcvAttempt(symbol))
          /\ WF_vars(FetchOhlcvResume(symbol))
          /\ WF_vars(UseFrame(symbol))


\* ------------------------------------------ opens and closes on their own
\* execute_signal and check_open_positions called in any order on one symbol,
\* at prices further apart than two consecutive cycles usually see (a gap, or
\* a run of failed fetches between two prices), on the build whose sizing
\* accepts kelly_fraction.
LedgerSymbol == "A"
LedgerPrices == {4000, 10000, 45000}
LedgerSignals == { Sig("BUY", 80, "NORMAL"), Sig("SELL", 80, "NORMAL") }
LedgerTicks == {3600}
LedgerIds == {1, 2}

\* The opens of the ledger: longs at the highest price, shorts below it, so
\* that every balance times BP stays within 32-bit integers.
LedgerObservable(price, signal) ==
    \/ signal.action = "BUY" /\ price = 45000
    \/ signal.action = "SELL" /\ price < 45000

LedgerIdle == <<matched_build, atr_cache, pc, results, opportunities, weakest_holdings,
                use_postgres, pg_trades, duck_trades, fetch_call, last_analysis>>

InitLedger ==
    /\ now = START_TIME
    /\ matched_build = TRUE
    /\ total_balance = INITIAL_BALANCE
    /\ free_balance = INITIAL_BALANCE
    /\ used_balance = 0
    /\ open_positions = <<>>
    /\ position_peaks = <<>>
    /\ rs = InitRiskState
    /\ price_cache = [s \in Symbols |-> NoPrice]
    /\ atr_cache = [s \in Symbols |-> 0]
    /\ next_id = 1
    /\ pc = "ledger"
    /\ results = [s \in Symbols |-> NoResult]
    /\ opportunities = <<>>
    /\ weakest_holdings = <<>>
    /\ log = <<>>
    /\ cycles = 0
    /\ InitServices

\* execute_signal(symbol, signal, current_price) at a freshly fetched price.
ExecuteSignalCall ==
    /\ pc = "ledger"
    /\ next_id \in LedgerIds
    /\ \E price \in LedgerPrices, signal \in LedgerSignals :
          /\ LedgerObservable(price, signal)
          /\ price_cache' = [price_cache EXCEPT ![LedgerSymbol] = price]
          /\ SetBot(execute_signal([Bot EXCEPT !.log = <<>>], LedgerSymbol, signal, price,
                                   atr_cache[LedgerSymbol], 0, now, matched_build))
    /\ UNCHANGED <<now, cycles>>
    /\ UNCHANGED LedgerIdle

\* check_open_positions() after a fetch has cached a price.
CheckOpenPositionsCall ==
    /\ pc = "ledger"
    /\ DOMAIN open_positions # {}
    /\ \E price \in LedgerPrices :
          /\ price_cache' = [price_cache EXCEPT ![LedgerSymbol] = price]
          /\ SetBot(check_open_positions([Bot EXCEPT !.log = <<>>], price_cache',
                                         atr_cache, now))
    /\ UNCHANGED <<now, cycles>>
    /\ UNCHANGED LedgerIdle

LedgerTick ==
    /\ pc = "ledger"
    /\ cycles < MaxTicks
    /\ \E d \in LedgerTicks : now' = now + d
    /\ cycles' = cycles + 1
    /\ UNCHANGED <<total_balance, free_balance, used_balance, open_positions,
                   position_peaks, rs, price_cache, next_id, log>>
    /\ UNCHANGED LedgerIdle

NextLedger ==
    \/ ExecuteSignalCall
    \/ CheckOpenPositionsCall
    \/ LedgerTick

SpecLedger == InitLedger /\ [][NextLedger]_vars


\* ------------------------------------------- the calculators on their own
\* RiskManager.calculate_trailing_stop and FeeCalculator.calculate_rollover_fees
\* called once with arguments drawn from the sets below; log holds the call
\* and, once it has run, what it returned.
TrailEntries == {10000}
TrailPeaks == {9700, 9800, 9801, 10000, 10199, 10200, 10201, 10400}
TrailCurrents == {9603, 9797, 9798, 9898, 9899, 10000, 10097, 10098, 10099,
                  10296, 10297, 10400}
TrailSides == {"buy", "sell"}
TrailingCalls ==
    { [kind |-> "trailing_stop", entry_price |-> e, current_price |-> c,
       peak_price |-> p, side |-> sd] :
         e \in TrailEntries, c \in TrailCurrents, p \in TrailPeaks, sd \in TrailSides }

RolloverValues == {95000, 100000}
RolloverDurations == {-18000, -3600, 0, 3600, 14399, 14400, 14401, 28799, 28800, 32400,
                      90000}
RolloverCalls ==
    { [kind |-> "rollover_fees", trade_value |-> v, entry_time |-> START_TIME,
       exit_time |-> START_TIME + d] : v \in RolloverValues, d \in RolloverDurations }

SizeBalances == {0, 999, 1000, 5000, 9990, 10000, 100000, 1000000}
SizePrices == {1, 4000, 10000, 33333}
SizeConfidences == {0, 19, 20, 59, 60, 69, 70, 84, 85, 100}
SizeVolatilities == {10, 50, 100, 200}
PositionSizeCalls ==
    { [kind |-> "position_size", balance |-> bal, price |-> p, confidence |-> c,
       volatility_factor |-> vf, atr |-> 0] :
         bal \in SizeBalances, p \in SizePrices, c \in SizeConfidences,
         vf \in SizeVolatilities }
MultiplierCalls == { [kind |-> "confidence_multiplier", confidence |-> c] : c \in SizeConfidences }

CalcIdle == <<now, matched_build, total_balance, free_balance, used_balance,
              open_positions, position_peaks, rs, price_cache, atr_cache, next_id,
              pc, results, opportunities, weakest_holdings, cycles,
              use_postgres, pg_trades, duck_trades, fetch_call, last_analysis>>

InitCalc ==
    /\ now = START_TIME
    /\ matched_build = FALSE
    /\ total_balance = INITIAL_BALANCE
    /\ free_balance = INITIAL_BALANCE
    /\ used_balance = 0
    /\ open_positions = <<>>
    /\ position_peaks = <<>>
    /\ rs = InitRiskState
    /\ price_cache = [s \in Symbols |-> NoPrice]
    /\ atr_cache = [s \in Symbols |-> 0]
    /\ next_id = 1
    /\ pc = "calc"
    /\ results = [s \in Symbols |-> NoResult]
    /\ opportunities = <<>>
    /\ weakest_holdings = <<>>
    /\ \E call \in TrailingCalls \cup RolloverCalls \cup PositionSizeCalls \cup MultiplierCalls :
          log = << call >>
    /\ cycles = 0
    /\ InitServices

CallTrailingStop ==
    /\ pc = "calc"
    /\ Len(log) = 1 /\ log[1].kind = "trailing_stop"
    /\ log' = Append(log, [kind |-> "returned",
                           value |-> calculate_trailing_stop(log[1].entry_price,
                                        log[1].current_price, log[1].peak_price,
                                        log[1].side)])
    /\ UNCHANGED CalcIdle

CallRolloverFees ==
    /\ pc = "calc"
    /\ Len(log) = 1 /\ log[1].kind = "rollover_fees"
    /\ log' = Append(log, [kind |-> "returned",
                           value |-> calculate_rollover_fees(log[1].trade_value,
                                        log[1].entry_time, log[1].exit_time)])
    /\ UNCHANGED CalcIdle

CallPositionSize ==
    /\ pc = "calc"
    /\ Len(log) = 1 /\ log[1].kind = "position_size"
    /\ log' = Append(log, [kind |-> "returned",
                           value |-> calculate_position_size(log[1].balance, log[1].price,
                                        log[1].confidence, log[1].volatility_factor,
                                        log[1].atr)])
    /\ UNCHANGED CalcIdle

CallConfidenceMultiplier ==
    /\ pc = "calc"
    /\ Len(log) = 1 /\ log[1].kind = "confidence_multiplier"
    /\ log' = Append(log, [kind |-> "returned",
                           value |-> _get_confidence_multiplier(log[1].confidence)])
    /\ UNCHANGED CalcIdle

NextCalc ==
    \/ CallTrailingStop
    \/ CallRolloverFees
    \/ CallPositionSize
    \/ CallConfidenceMultiplier

SpecCalc == InitCalc /\ [][NextCalc]_vars


\* ------------------------------------------------------------------ claims
LogEvents(kind) == { i \in 1..Len(log) : log[i].kind = kind }

KellyFractions == {0, 500, 2500}
Confidences == { s.confidence : s \in Signals }

C3_ShortPyramid ==
    \E id \in DOMAIN open_positions, id2 \in DOMAIN open_positions :
        /\ id < id2
        /\ open_positions[id].symbol = open_positions[id2].symbol
        /\ open_positions[id].side = "sell" /\ open_positions[id2].side = "sell"

\* The close events that one pass of run_cycle's exit steps logged for a trade.
ClosesOf(events, id) ==
    { i \in 1..Len(events) : events[i].kind = "close" /\ events[i].id = id }

HardReasons == {"TRAILING_STOP", "STOP_LOSS", "TAKE_PROFIT"}

\* The reason that the precedence trailing stop > stop-loss > take-profit
\* selects for a position at a price, "NONE" when no exit condition is true.
ReasonByPrecedence(side, entry_price, current_price, peak_price, atr) ==
    IF calculate_trailing_stop(entry_price, current_price, peak_price, side).should_close
    THEN "TRAILING_STOP"
    ELSE IF StopLossHit(side, entry_price, current_price) THEN "STOP_LOSS"
    ELSE IF TakeProfitHit(side, entry_price, current_price, atr) THEN "TAKE_PROFIT"
    ELSE "NONE"

\* Prices and ATR values around an entry at 100.00: beyond the stop-loss, at
\* the entry, and beyond the low-volatility and the default take-profit.
GridEntries == {10000}
GridPrices == {4000, 10000, 10320, 10450, 10700}
GridAtrs == {0, 100}

SignalReversed(res, symbol, side) ==
    /\ res[symbol].status = "ok"
    /\ \/ side = "buy" /\ res[symbol].signal.action = "SELL"
       \/ side = "sell" /\ res[symbol].signal.action = "BUY"

FailingChecks(st, symbol, balance, t) ==
    LET failed ==
          << st.daily_pnl * BP < -(balance * MAX_DAILY_LOSS),
             st.daily_trades >= max_daily_trades,
             Cardinality(DOMAIN st.open_positions) >= max_open_positions,
             symbol_positions(st, symbol) >= max_trades_per_symbol,
             st.last_trade_time[symbol] # NoTime
                 /\ t - st.last_trade_time[symbol] < COOLDOWN_MINUTES * 60,
             st.current_drawdown > max_drawdown_percent,
             total_exposure(st) * BP > balance * MAX_TOTAL_EXPOSURE >>
    IN { i \in 1..7 : failed[i] }

CheckReasons ==
    << R_DAILY_LOSS, R_DAILY_TRADES, R_MAX_OPEN, R_MAX_SYMBOL, R_COOLDOWN,
       R_DRAWDOWN, R_EXPOSURE >>

C6_WitnessDrawdown ==
    /\ Len(log) = 1 /\ log[1].kind = "can_trade"
    /\ FailingChecks(rs, log[1].symbol, total_balance, now) = {6}
    /\ log[1].reason = R_DRAWDOWN

\* The number of open positions whose symbol is `symbol`.
PositionsForSymbol(st, symbol) ==
    Cardinality({ id \in DOMAIN st.open_positions : st.open_positions[id].symbol = symbol })

\* C7: can_trade(symbol, balance) rejects whenever the number of open
\* positions on `symbol` is at least max_trades_per_symbol and no earlier
\* check fails.
C7_PerSymbolLimitRejects ==
    \A symbol \in Symbols :
        LET r == can_trade(rs, symbol, total_balance, now)
        IN PositionsForSymbol(r.rs, symbol) >= max_trades_per_symbol => ~r.allowed

C9_CanTradeIdempotent ==
    \A symbol \in Symbols :
        LET first == can_trade(rs, symbol, total_balance, now)
            second == can_trade(first.rs, symbol, total_balance, now)
        IN /\ second.allowed = first.allowed
           /\ second.reason = first.reason
           /\ second.rs = first.rs

\* C9 witness: can_trade has answered a call that reset the daily statistics
\* (the day had rolled over with trades counted for the old day) and allowed
\* the trade.
C9_Witness ==
    /\ Len(log) = 1 /\ log[1].kind = "can_trade" /\ log[1].allowed
    /\ rs.daily_reset_day = now \div DAY
    /\ rs.daily_reset_day > START_TIME \div DAY
    /\ rs.daily_trades = 0
    /\ DOMAIN rs.open_positions # {}

NewEvents == { i \in 1..Len(log') : i > Len(log) /\ Len(log') >= Len(log) }

\* C11: a holding is closed with ARBITRAGE_SWAP only in an auction iteration
\* in which it is the head of the sorted holdings list, no holding left in the
\* list has a lower score, and the opportunity's score exceeds its score by
\* more than SWAP_THRESHOLD; an iteration whose opportunity is not that much
\* better than the head of the list closes nothing.
C11_SwapOnlyWeakest ==
    [][ /\ \A i \in NewEvents :
              (log'[i].kind = "close" /\ log'[i].reason = "ARBITRAGE_SWAP") =>
                  /\ pc = "auction" /\ opportunities # <<>> /\ weakest_holdings # <<>>
                  /\ Head(weakest_holdings).trade_id = log'[i].id
                  /\ log'[i].id \in DOMAIN open_positions
                  /\ \A j \in 1..Len(weakest_holdings) :
                        Head(weakest_holdings).score <= weakest_holdings[j].score
                  /\ Head(weakest_holdings).score =
                        results[open_positions[log'[i].id].symbol].signal.confidence
                  /\ Head(opportunities).score - Head(weakest_holdings).score
                        > SWAP_THRESHOLD
                  /\ weakest_holdings' = Tail(weakest_holdings)
        /\ (pc = "auction" /\ opportunities # <<>> /\ weakest_holdings # <<>>
              /\ Head(opportunities).score - Head(weakest_holdings).score
                    <= SWAP_THRESHOLD)
             => DOMAIN open_positions \subseteq DOMAIN open_positions'
      ]_vars

\* C11 witness: a holding has been closed with ARBITRAGE_SWAP while the list
\* held other holdings, which remain in it.
C11_Witness ==
    /\ pc = "auction"
    /\ weakest_holdings # <<>>
    /\ \E i \in LogEvents("close") : log[i].reason = "ARBITRAGE_SWAP"

\* C11 second witness: an opportunity that needed a swap was exactly
\* SWAP_THRESHOLD better than the weakest holding, and nothing was closed.
C11_WitnessThreshold ==
    \E i \in LogEvents("auction") :
        /\ log[i].branch = "noswap"
        /\ log[i].score - log[i].victim_score = SWAP_THRESHOLD

\* The notional of the position the auction sizes for opp from the free
\* balance `free` (the re-sizing of lines 763-770).
ResizedNotional(free, opp) ==
    (calculate_position_size(free, opp.price, opp.signal.confidence, 100,
                             atr_cache[opp.symbol]).size * opp.price) \div AMT_SCALE

\* C12: an auction iteration that closes a holding with ARBITRAGE_SWAP, and
\* whose re-sizing with the refreshed free balance yields at least
\* MIN_TRADE_VALUE, also opens the position of the opportunity.
C12_SwapThenOpen ==
    [][ \A i \in NewEvents :
           (log'[i].kind = "close" /\ log'[i].reason = "ARBITRAGE_SWAP"
              /\ ~\E j \in NewEvents : j > i /\ log'[j].kind = "open"
                                             /\ log'[j].symbol = Head(opportunities).symbol)
           => ResizedNotional(free_balance', Head(opportunities)) < MIN_TRADE_VALUE
      ]_vars

\* A swap after which the opportunity's position was opened in the same
\* iteration.
C12_SwapCompleted ==
    \E i \in LogEvents("close"), j \in LogEvents("open") :
        log[i].reason = "ARBITRAGE_SWAP" /\ j = i + 1

\* C13: run_cycle never lets an exception reach its caller: whatever fails
\* while a symbol is analysed, a position is closed or a position is opened
\* (the sizing call of execute_signal included), the bot goes on with the
\* cycle and never ends in the crashed state.
C13_RunCycleNeverRaises ==
    pc # "crashed"

C15_DailyLossHaltsManagement ==
    [][ (pc = "fetch" /\ pc' = "auction" /\ daily_loss_breached(rs, total_balance))
        => open_positions' = open_positions
      ]_vars

\* C16: close_trade called with a trade id that is not in the open-position
\* map (never registered, or closed before) leaves every field of RiskState
\* unchanged, whatever the pnl passed.
C16_CloseUnknownIsNoOp ==
    \A trade_id \in (1..(MaxRegistered + 1)) \ DOMAIN rs.open_positions, pnl \in RiskPnls :
        close_trade(rs, trade_id, pnl) = rs

\* C17: save_trade never raises; when PostgreSQL is in use and fails, at
\* connection time or at query time, while DuckDB is healthy, the trade row
\* ends up stored in DuckDB; the write is dropped only if both backends fail.
C17_SaveTradeFailsOver ==
    (Len(log) = 1 /\ log[1].kind = "save_trade") =>
        LET e == log[1]
            primary_failed == e.was_postgres /\ (~e.pg_connect_ok \/ ~e.pg_query_ok)
        IN /\ ~e.raised
           /\ (primary_failed /\ e.duck_ok) =>
                 (e.stored = "duckdb" /\ duck_trades[e.id] = e.row)
           /\ e.stored = "dropped" =>
                 (~e.duck_ok /\ (primary_failed \/ ~e.was_postgres))

\* The fail-over that works: PostgreSQL connected, the query failed, and the
\* row was written to DuckDB on the retry.
C17_QueryFailureFailsOver ==
    /\ Len(log) = 1 /\ log[1].kind = "save_trade"
    /\ log[1].was_postgres /\ log[1].pg_connect_ok /\ ~log[1].pg_query_ok
    /\ log[1].stored = "duckdb" /\ duck_trades[log[1].id] = log[1].row

\* A call of fetch_ohlcv that is over, with the frame in the caller's hands or
\* already used.
CallOver(c) == c.status \in {"returned", "skipped", "analysed"}

\* What a call has done so far is what the retry contract allows: at most
\* MAX_RETRIES attempts, every attempt but the last one failed, one wait
\* before each further attempt, the i-th wait lasting RETRY_DELAY x 2^(i-1);
\* a call that is over returned data exactly if its last attempt got candles,
\* and otherwise an empty frame, after MAX_RETRIES failures or an empty answer.
WithinRetryContract(c) ==
    /\ Len(c.outcomes) <= MAX_RETRIES
    /\ \A i \in 1..(Len(c.outcomes) - 1) : c.outcomes[i] = "error"
    /\ \A i \in 1..Len(c.waits) : c.waits[i] = RETRY_DELAY * (2 ^ (i - 1))
    /\ c.status = "trying" => (Len(c.waits) = Len(c.outcomes) /\ c.attempt = Len(c.outcomes))
    /\ c.status = "waiting" => Len(c.waits) = Len(c.outcomes)
    /\ CallOver(c) =>
          /\ c.outcomes # <<>>
          /\ Len(c.waits) = Len(c.outcomes) - 1
          /\ c.frame = "data" <=> c.outcomes[Len(c.outcomes)] = "candles"
          /\ c.frame \in {"data", "empty"}
          /\ c.outcomes[Len(c.outcomes)] = "error" => Len(c.outcomes) = MAX_RETRIES
          /\ c.status = "skipped" <=> (c.status # "returned" /\ c.frame = "empty")

\* C18: every call of fetch_ohlcv terminates, within the retry contract: at
\* most MAX_RETRIES attempts with exponentially growing waits between them,
\* the data on the first success, an empty frame (never an exception) after
\* the last failed attempt, and the caller then skips the symbol.
C18_FetchTerminates ==
    /\ [](\A symbol \in Symbols : WithinRetryContract(fetch_call[symbol]))
    /\ \A symbol \in Symbols :
          (fetch_call[symbol].status = "trying") ~> CallOver(fetch_call[symbol])

\* C18 witness: one call returned data on its third attempt after waits of 1 s
\* and 2 s, and another call gave up after three failures and was skipped.
C18_Witness ==
    \E s1, s2 \in Symbols :
        /\ fetch_call[s1].outcomes = <<"error", "error", "candles">>
        /\ fetch_call[s1].waits = <<1, 2>>
        /\ fetch_call[s1].frame = "data"
        /\ fetch_call[s2].outcomes = <<"error", "error", "error">>
        /\ fetch_call[s2].status = "skipped"

\* A call of the named calculator that has returned.
Returned(kind) == Len(log) = 2 /\ log[1].kind = kind /\ log[2].kind = "returned"

\* C19: calculate_trailing_stop answers "not yet active" and should_close =
\* FALSE while the profit from entry to peak is below
\* trailing_stop_activation; from the activation on, the trail level is
\* peak x (1 - trailing_stop_distance) for a long and peak x (1 + distance)
\* for a short, and should_close is TRUE exactly when the current price is at
\* or beyond that level.
C19_TrailingStop ==
    Returned("trailing_stop") =>
        LET c == log[1]
            r == log[2].value
            long == c.side = "buy"
            profit == IF long THEN c.peak_price - c.entry_price
                      ELSE c.entry_price - c.peak_price
            level_bp == IF long THEN c.peak_price * (BP - TRAILING_STOP_DISTANCE)
                        ELSE c.peak_price * (BP + TRAILING_STOP_DISTANCE)
            beyond == IF long THEN c.current_price * BP <= level_bp
                      ELSE c.current_price * BP >= level_bp
        IN IF profit * BP < TRAILING_STOP_ACTIVATION * c.entry_price
           THEN ~r.should_close /\ r.state = "not yet active"
           ELSE /\ r.trailing_stop = level_bp \div BP
                /\ r.should_close <=> beyond
                /\ r.state # "not yet active"

\* C19 witness: a long whose peak is exactly at the activation and whose
\* current price is exactly at the trail level has been told to close.
C19_Witness ==
    /\ Returned("trailing_stop")
    /\ log[1].side = "buy" /\ log[1].peak_price = 10200 /\ log[1].current_price = 10098
    /\ log[2].value.should_close

\* C19 second witness: a short whose current price is exactly at its trail
\* level has been told to close.
C19_WitnessShort ==
    /\ Returned("trailing_stop")
    /\ log[1].side = "sell" /\ log[1].peak_price = 9800 /\ log[1].current_price = 9898
    /\ log[2].value.should_close

\* C20: for a position closed at or after its entry, calculate_rollover_fees
\* returns trade_value x margin_rollover_fee x floor(hours_open /
\* rollover_interval_hours): nothing before one full interval has elapsed, and
\* one more charge for each further full interval.
C20_RolloverFees ==
    (Returned("rollover_fees") /\ log[1].exit_time >= log[1].entry_time) =>
        LET seconds_open == log[1].exit_time - log[1].entry_time
            interval == ROLLOVER_INTERVAL_HOURS * HOUR
            full == CHOOSE n \in 0..(seconds_open \div HOUR) :
                        n * interval <= seconds_open /\ seconds_open < (n + 1) * interval
        IN /\ log[2].value * BP = log[1].trade_value * MARGIN_ROLLOVER_FEE * full
           /\ seconds_open < interval => log[2].value = 0

\* C20 witness: a position of 950.00 held for exactly two intervals has been
\* charged 0.38.
C20_Witness ==
    /\ Returned("rollover_fees")
    /\ log[1].trade_value = 95000
    /\ log[1].exit_time - log[1].entry_time = 2 * ROLLOVER_INTERVAL_HOURS * HOUR
    /\ log[2].value = 38

\* Outside C20: for an exit time before the entry time, the count of periods
\* is cut toward zero, so that less than one interval of negative time costs
\* nothing and more than one is credited.
C20_BeforeEntry ==
    (Returned("rollover_fees") /\ log[1].exit_time < log[1].entry_time) =>
        log[2].value * BP =
            -(log[1].trade_value * MARGIN_ROLLOVER_FEE
                * ((log[1].entry_time - log[1].exit_time) \div (ROLLOVER_INTERVAL_HOURS * HOUR)))

\* C21: for every balance, positive price, confidence and volatility factor,
\* calculate_position_size returns a size whose notional (size x price) is at
\* most balance x max_position_percent, and returns size 0 whenever the
\* position value left after the cap is below min_trade_value.
C21_PositionSizeCapped ==
    Returned("position_size") =>
        LET c == log[1]
            r == log[2].value
            max_value == (c.balance * MAX_POSITION_PERCENT) \div BP
        IN /\ r.size >= 0
           /\ r.size * c.price <= max_value * AMT_SCALE
           /\ max_value < MIN_TRADE_VALUE => r.size = 0
           /\ r.size > 0 => (r.size + 1) * c.price > MIN_TRADE_VALUE * AMT_SCALE

\* C21 witness: a balance of 1000.00 at full confidence has been sized at the
\* cap of 100.00 exactly.
C21_Witness ==
    /\ Returned("position_size")
    /\ log[1].balance = 100000 /\ log[1].price = 10000 /\ log[1].confidence = 100
    /\ log[1].volatility_factor = 50
    /\ log[2].value.size * log[1].price = 10000 * AMT_SCALE

\* C21 second witness: a balance of 50.00, whose cap of 5.00 is below
\* min_trade_value, has been sized at 0.
C21_WitnessBelowMinimum ==
    /\ Returned("position_size")
    /\ log[1].balance = 5000 /\ log[1].confidence = 100
    /\ log[2].value.size = 0

\* The tier a confidence (in hundredths) falls in.
InTier(confidence, from, to) == from <= confidence /\ confidence < to

\* C22: _get_confidence_multiplier returns 0 for confidence below
\* min_confidence, the low multiplier on [min_confidence, 0.60), the medium
\* one on [0.60, 0.70), the high one on [0.70, 0.85) and the very-high one
\* from 0.85 on; and calculate_position_size returns size 0 for a confidence
\* whose multiplier is 0.
C22_ConfidenceTiers ==
    /\ Returned("confidence_multiplier") =>
          LET c == log[1].confidence
              m == log[2].value
          IN /\ c < MIN_SIGNAL_CONFIDENCE => m = 0
             /\ InTier(c, MIN_SIGNAL_CONFIDENCE, 60) => m = CONFIDENCE_MULTIPLIER_LOW
             /\ InTier(c, 60, 70) => m = CONFIDENCE_MULTIPLIER_MEDIUM
             /\ InTier(c, 70, 85) => m = CONFIDENCE_MULTIPLIER_HIGH
             /\ c >= 85 => m = CONFIDENCE_MULTIPLIER_VERY_HIGH
    /\ (Returned("position_size") /\ log[1].confidence < MIN_SIGNAL_CONFIDENCE) =>
          log[2].value = NoSize

\* C22 witness: a confidence of 0.19 on a balance of 1000.00 has been sized
\* at 0.
C22_Witness ==
    /\ Returned("position_size")
    /\ log[1].confidence = 19 /\ log[1].balance = 100000
    /\ log[2].value.size = 0

\* C22 second witness: the boundary confidence 0.85 has been given the
\* very-high multiplier.
C22_WitnessBoundary ==
    /\ Returned("confidence_multiplier")
    /\ log[1].confidence = 85
    /\ log[2].value = CONFIDENCE_MULTIPLIER_VERY_HIGH

\* C23: in a pass of check_open_positions (the step of run_cycle that leaves
\* the fetch phase) in which the trailing stop of a long position does not
\* fire, the position is closed with STOP_LOSS whenever the price fetched in
\* this cycle is at or below the stop_loss stored on it, and with TAKE_PROFIT
\* whenever that price is at or above its stored take_profit (the values
\* registered with the RiskManager, which the pyramiding ratchet keeps equal
\* to those of the bot's own record).
C23_StoredStopsDecide ==
    [][ (pc = "fetch" /\ pc' = "auction") =>
          \A id \in (DOMAIN open_positions) \cap (DOMAIN rs.open_positions) :
             LET p == [open_positions[id] EXCEPT
                          !.stop_loss = rs.open_positions[id].stop_loss,
                          !.take_profit = rs.open_positions[id].take_profit]
                 price == price_cache[p.symbol]
                 evaluated ==
                     /\ p.side = "buy"
                     /\ results[p.symbol].status = "ok"
                     /\ ~calculate_trailing_stop(p.entry_price, price,
                            PeakAfter(position_peaks, id, p.side, price), p.side).should_close
                 closes == ClosesOf(log', id)
             IN evaluated =>
                   /\ price <= p.stop_loss =>
                         \E i \in closes : log'[i].reason = "STOP_LOSS"
                   /\ price >= p.take_profit =>
                         \E i \in closes : log'[i].reason = "TAKE_PROFIT"
      ]_vars

\* The case of C23 that does follow the stored values: a long whose stop_loss
\* was never moved has been closed with STOP_LOSS at a price below it.
C23_UnmovedStopCloses ==
    \E i \in LogEvents("close") :
        /\ log[i].reason = "STOP_LOSS"
        /\ log[i].side = "buy"
        /\ log[i].exit_price * BP <= log[i].entry_price * (BP - DEFAULT_STOP_LOSS)

PendingTasks == { s \in Symbols : results[s].status = "pending" }

\* C25: while a fetch_and_analyze task of the cycle is still running, no
\* step changes the open positions, their peaks, the balance fields or the
\* RiskState; such a step is the return of one task, which writes the price,
\* ATR and last-analysis caches and its result under its own symbol only.
C25_JoinBeforeMutate ==
    [][ PendingTasks # {} =>
          /\ UNCHANGED <<open_positions, position_peaks, total_balance, free_balance,
                         used_balance, rs, next_id>>
          /\ \E s \in PendingTasks :
                \A o \in Symbols \ {s} :
                   /\ price_cache'[o] = price_cache[o]
                   /\ atr_cache'[o] = atr_cache[o]
                   /\ last_analysis'[o] = last_analysis[o]
                   /\ results'[o] = results[o]
      ]_vars

\* C25 witness: with positions open, the task of the last symbol has returned
\* while the task of the first is still running.
C25_Witness ==
    /\ pc = "fetch"
    /\ results["C"].status = "ok"
    /\ results["A"].status = "pending"
    /\ DOMAIN open_positions # {}
    /\ cycles > 0

\* The trail level of a position at a peak, and whether the trailing stop is
\* active there (its answer is anything but "not yet active").
TrailAt(p, peak) == calculate_trailing_stop(p.entry_price, peak, peak, p.side)
TrailActive(p, peak) == TrailAt(p, peak).state # "not yet active"

\* C26: while a position stays open its tracked peak is kept and only moves
\* favourably (up for a long, down for a short), the trail level moves with
\* it in the same direction only, and a trailing stop that is active stays
\* active; the peak update itself never moves a peak unfavourably, for every
\* price of the grid.
C26_PeakRatchets ==
    [][ /\ \A id \in (DOMAIN open_positions) \cap (DOMAIN open_positions')
                        \cap (DOMAIN position_peaks) :
             LET p == open_positions[id]
                 old == position_peaks[id]
             IN /\ id \in DOMAIN position_peaks'
                /\ p.side = "buy" => position_peaks'[id] >= old
                /\ p.side = "sell" => position_peaks'[id] <= old
                /\ TrailActive(p, old) =>
                      /\ TrailActive(p, position_peaks'[id])
                      /\ p.side = "buy" =>
                            TrailAt(p, position_peaks'[id]).trailing_stop
                                >= TrailAt(p, old).trailing_stop
                      /\ p.side = "sell" =>
                            TrailAt(p, position_peaks'[id]).trailing_stop
                                <= TrailAt(p, old).trailing_stop
        /\ cycles = 0 =>
             \A peak \in GridPrices, current \in GridPrices :
                /\ PeakAfter((1 :> peak), 1, "buy", current) = Max(peak, current)
                /\ PeakAfter((1 :> peak), 1, "sell", current) = Min(peak, current)
      ]_vars

\* C26 witness: after an exit pass a long is still open with its peak above
\* its entry price and its trailing stop active.
C26_Witness ==
    /\ pc = "auction"
    /\ \E id \in (DOMAIN open_positions) \cap (DOMAIN position_peaks) :
          /\ open_positions[id].side = "buy"
          /\ position_peaks[id] > open_positions[id].entry_price
          /\ TrailActive(open_positions[id], position_peaks[id])

\* A long opened by execute_signal at 100.00 is still open with its peak moved
\* from 100.00 to 104.00.
C26_PeakMoved ==
    \E id \in (DOMAIN open_positions) \cap (DOMAIN position_peaks) :
        /\ id > 0
        /\ open_positions[id].side = "buy"
        /\ open_positions[id].entry_price = 10000
        /\ position_peaks[id] = 10400

\* The ids of the positions a step opens.
OpenedIds == (DOMAIN open_positions') \ (DOMAIN open_positions)

C27_WitnessReentry ==
    \E id \in DOMAIN open_positions, other \in DOMAIN open_positions :
        /\ id > 0 /\ id < other
        /\ open_positions[id].symbol = open_positions[other].symbol
        /\ open_positions[other].entry_time > open_positions[id].entry_time

\* Sum of entry_price x amount over a set of open positions.
RECURSIVE OpenNotional(_, _)
OpenNotional(positions, ids) ==
    IF ids = {} THEN 0
    ELSE LET id == CHOOSE x \in ids : TRUE
         IN (positions[id].entry_price * positions[id].amount) \div AMT_SCALE
               + OpenNotional(positions, ids \ {id})

C28_WitnessAllClosed ==
    /\ next_id > 1
    /\ DOMAIN open_positions = {}
    /\ used_balance = 0

C29_EntryFeeChargedTwice ==
    \A i \in LogEvents("close") :
        (log[i].id = 1 /\ next_id = 2 /\ Cardinality(LogEvents("close")) = 1) =>
            total_balance = INITIAL_BALANCE + log[i].gross_pnl
                               - (2 * log[i].entry_fee + log[i].exit_fee + log[i].rollover_fee)

C30_OpensKeepFreeNonNegative ==
    [][ (free_balance >= 0 /\ OpenedIds # {}) => free_balance' >= 0 ]_vars

====
